---- MODULE Spec2Model ----
(***************************************************************************)
(* A model of the QGIS plugin template: the plugin controller              *)
(* (plugin_template.py), the Sample dock (dialogs/sample_dock.py) and the  *)
(* Settings dock (dialogs/settings_dock.py).                               *)
(*                                                                         *)
(* Six specifications share the variables:                                 *)
(*   Spec          the controller: initGui, the two toggles (with every    *)
(*                 point at which construction can raise), host close and  *)
(*                 show of a dock, host layer notifications, unload, and   *)
(*                 a plugin reload (classFactory);                         *)
(*   SpecSample    the Sample dock's form: edits, browse, run, clear;      *)
(*   SpecSettings  the Settings dock's form against the preference store:  *)
(*                 edits, save, load, reset, and a panel restart.          *)
(*   SpecLoad      the Settings dock over a store that holds only some of  *)
(*                 the keys: construction, load, reset;                    *)
(*   SpecAbout     the about dialog over the contents of metadata.txt,     *)
(*                 next to the two toggles and the host's close and show;  *)
(*   SpecPickers   the file picker of the Sample dock and the directory    *)
(*                 pickers of the Settings dock, with save and load.       *)
(*                                                                         *)
(* Host behaviour the code relies on (Qt / QGIS) is modelled where the     *)
(* code calls it: a checkable QAction flips its checked state before its   *)
(* triggered callback runs; QDockWidget emits visibilityChanged when it    *)
(* is shown or hidden; QgisInterface.addDockWidget shows the dock;         *)
(* removeDockWidget hides it; closing a dock delivers closeEvent and then  *)
(* hides it; disconnect() of a connection that does not exist raises       *)
(* TypeError; QSettings persists every value in its string form;           *)
(* deleteLater() deletes the widget, and PyQt no longer delivers a signal  *)
(* to a method of a deleted QObject.                                       *)
(***************************************************************************)
EXTENDS Integers, Sequences, FiniteSets, TLC

VARIABLES
    stage,        \* "constructed" | "gui" | "unloaded": life of the PluginTemplate object
    unloadCalls,  \* number of unload() calls on this PluginTemplate object
    actions,      \* self.actions: the labels of the registered QActions
    menu,         \* self.menu: "None" | "alive" | "deleteLater"
    toolbar,      \* self.toolbar: "None" | "alive" | "unset" (attribute deleted)
    dockRef,      \* [panel -> BOOLEAN]: self._<panel>_dock is not None
    widget,       \* [panel -> record]: the referenced dock widget
    instances,    \* [panel -> Nat]: dock widgets constructed and not yet deleted
    checked,      \* [panel -> BOOLEAN]: the toggle QAction's checked state
    layers,       \* the host project's loaded layers (QgsProject.mapLayers)
    combo,        \* the Sample dock's layer_combo: sequence of item data
    comboIndex,   \* layer_combo.currentIndex(), 0-based, -1 when empty
    subs,         \* [added, removed]: _populate_layers connected to the signal
    form,         \* the Sample dock's input, output and status widgets
    fields,       \* the Settings dock's 15 fields
    sstatus,      \* the Settings dock's status label
    store,        \* QSettings: [key -> [set, s]], s the persisted string
    last,         \* what the last operation did (its name and its outcome)
    saved,        \* history: the fields as they were at the last save
    resetNoSave,  \* history: a confirmed reset happened and no save since
    edits         \* history: number of field edits made by the user

vars == <<stage, unloadCalls, actions, menu, toolbar, dockRef, widget, instances,
          checked, layers, combo, comboIndex, subs, form, fields, sstatus, store,
          last, saved, resetNoSave, edits>>

ctlVars == <<stage, unloadCalls, actions, menu, toolbar>>
dockVars == <<dockRef, widget, instances, checked>>
sampleVars == <<combo, comboIndex, subs, form>>
settingsVars == <<fields, sstatus>>
histVars == <<saved, resetNoSave, edits>>

\* ------------------------------------------------------------------ bounds

MaxLayers == 2
MaxUnloads == 2
MaxEdits == 2
MaxPresent == 2
MaxMetaLines == 2

Panels == {"sample", "settings"}
LayerIds == 1..MaxLayers

\* ------------------------------------------------------------------ strings
\* A string that the program parses is a sequence of characters; a string
\* that it only builds and shows is a TLA+ string.

DigitChars == <<"0", "1", "2", "3", "4", "5", "6", "7", "8", "9">>

Range(s) == {s[i] : i \in 1..Len(s)}

RECURSIVE IntToStr(_)
IntToStr(n) ==
    IF n < 0 THEN <<"-">> \o IntToStr(0 - n)
    ELSE IF n < 10 THEN <<DigitChars[n + 1]>>
    ELSE IntToStr(n \div 10) \o <<DigitChars[(n % 10) + 1]>>

DigitVal(c) == CHOOSE d \in 0..9 : DigitChars[d + 1] = c

RECURSIVE DigitsToInt(_)
DigitsToInt(s) ==
    IF s = <<>> THEN 0
    ELSE 10 * DigitsToInt(SubSeq(s, 1, Len(s) - 1)) + DigitVal(s[Len(s)])

\* QVariant(QString).toInt(): 0 when the text is not a number.
StrToInt(s) ==
    IF s = <<>> THEN 0
    ELSE IF s[1] = "-" /\ Len(s) > 1 /\ Range(Tail(s)) \subseteq Range(DigitChars)
         THEN 0 - DigitsToInt(Tail(s))
    ELSE IF Range(s) \subseteq Range(DigitChars) THEN DigitsToInt(s)
    ELSE 0

RECURSIVE Join(_)
Join(s) == IF s = <<>> THEN "" ELSE s[1] \o Join(Tail(s))

\* str(int) of Python, as a TLA+ string.
PyStrInt(n) == Join(IntToStr(n))

\* str(bool) of Python.
PyStrBool(b) == IF b THEN "True" ELSE "False"

\* ------------------------------------------------------------------ last operation

NoOutcome ==
    [op |-> "init", panel |-> "none", raised |-> "none", dialogs |-> 0, built |-> FALSE,
     failed |-> FALSE, notes |-> 0, caught |-> FALSE, accepted |-> FALSE,
     reply |-> "none", removed |-> <<>>, hadSubs |-> FALSE, hadOutput |-> FALSE,
     target |-> "none", dir |-> <<>>, meta |-> <<>>, readFails |-> FALSE,
     version |-> "", warnings |-> 0, abouts |-> 0]

Outcome(op) == [NoOutcome EXCEPT !.op = op]

\* ------------------------------------------------------------------ Sample dock

\* The item data of the leading "-- Select a layer --" entry (None).
NoneData == 0

RECURSIVE SetToSeq(_)
SetToSeq(S) ==
    IF S = {} THEN <<>>
    ELSE LET m == CHOOSE x \in S : \A y \in S : x <= y
         IN <<m>> \o SetToSeq(S \ {m})

\* _populate_layers: clear the combo, add the sentinel, then one item per layer
\* of the project. Adding the first item to an empty combo makes it current.
PopulateItems(ls) == <<NoneData>> \o SetToSeq(ls)
PopulateIndex(ls) == 0

\* layer.id() of the host's layer l.
LayerIdStr(l) == "layer_" \o PyStrInt(l)

\* layer_combo.currentData(): the item data of the current item.
CurrentData(items, idx) == IF idx >= 0 /\ idx < Len(items) THEN items[idx + 1] ELSE NoneData

SpinMin == 0
SpinMax == 1000
SpinDefault == 100

\* The widgets of the Sample dock as _setup_ui leaves them. The output text
\* is the sequence of its lines (the report is "\n".join(output_lines)).
DefaultForm ==
    [text |-> "", number |-> SpinDefault, option |-> TRUE, file |-> "",
     output |-> <<>>, status |-> "Ready", statusColor |-> "gray", progress |-> FALSE]

NoSubs == [added |-> FALSE, removed |-> FALSE]
AllSubs == [added |-> TRUE, removed |-> TRUE]

\* ReportLines with the text line printed without its "(empty)" fallback.
ReportLinesNoFallback(layerData, text, number, option, file) ==
    << "=== Sample Action Results ===",
       "",
       "Selected Layer ID: " \o (IF layerData = NoneData THEN "None" ELSE LayerIdStr(layerData)),
       "Text Input: " \o text,
       "Number Value: " \o PyStrInt(number),
       "Option Enabled: " \o PyStrBool(option),
       "File Path: " \o (IF file = "" THEN "(none)" ELSE file),
       "",
       "Action completed successfully!" >>

\* _run_action's output_lines, from the values read at its start.
ReportLines(layerData, text, number, option, file) ==
    << "=== Sample Action Results ===",
       "",
       "Selected Layer ID: " \o (IF layerData = NoneData THEN "None" ELSE LayerIdStr(layerData)),
       "Text Input: " \o (IF text = "" THEN "(empty)" ELSE text),
       "Number Value: " \o PyStrInt(number),
       "Option Enabled: " \o PyStrBool(option),
       "File Path: " \o (IF file = "" THEN "(none)" ELSE file),
       "",
       "Action completed successfully!" >>

\* CloseDisconnect without the except clause: the TypeError of a failed
\* disconnect leaves closeEvent.
CloseDisconnectUncaught(s) ==
    IF ~s.added \/ ~s.removed
    THEN [subs |-> [s EXCEPT !.added = FALSE], caught |-> FALSE, raised |-> "TypeError"]
    ELSE [subs |-> NoSubs, caught |-> FALSE, raised |-> "none"]

\* closeEvent's try block: disconnect layersAdded, then layersRemoved; a
\* disconnect of a connection that does not exist raises TypeError, which
\* skips the rest of the block and is caught.
CloseDisconnect(s) ==
    IF ~s.added THEN [subs |-> s, caught |-> TRUE, raised |-> "none"]
    ELSE IF ~s.removed
         THEN [subs |-> [s EXCEPT !.added = FALSE], caught |-> TRUE, raised |-> "none"]
    ELSE [subs |-> NoSubs, caught |-> FALSE, raised |-> "none"]

\* ------------------------------------------------------------------ Settings dock

BoolKeys == {"auto_load", "notifications", "debug"}
ComboKeys == {"default_action", "language", "theme", "log_level"}
SpinKeys == {"font_size", "max_threads", "chunk_size", "memory_limit"}
FloatKeys == {"tolerance"}
StrKeys == {"output_dir", "temp_dir", "models_dir"}
Keys == BoolKeys \cup ComboKeys \cup SpinKeys \cup FloatKeys \cup StrKeys

\* The number of items of each combo box (addItems).
ComboCount(k) ==
    CASE k = "default_action" -> 3
      [] k = "language" -> 5
      [] k = "theme" -> 3
      [] k = "log_level" -> 4

\* setRange of each spin box; the tolerance is counted in hundredths (the
\* QDoubleSpinBox has two decimals and the range 0.00 .. 10.00).
SpinLow(k) ==
    CASE k = "font_size" -> 8
      [] k = "max_threads" -> 1
      [] k = "chunk_size" -> 256
      [] k = "memory_limit" -> 256
      [] k = "tolerance" -> 0

SpinHigh(k) ==
    CASE k = "font_size" -> 24
      [] k = "max_threads" -> 32
      [] k = "chunk_size" -> 4096
      [] k = "memory_limit" -> 16384
      [] k = "tolerance" -> 1000

\* The values the widgets are given when _setup_ui builds them.
ConstructorFields ==
    [auto_load |-> TRUE, notifications |-> TRUE, default_action |-> 0, language |-> 0,
     theme |-> 0, font_size |-> 10, max_threads |-> 4, chunk_size |-> 512,
     memory_limit |-> 4096, tolerance |-> 50, debug |-> FALSE, log_level |-> 2,
     output_dir |-> <<>>, temp_dir |-> <<>>, models_dir |-> <<>>]

\* LoadDefaults with the log level defaulting to the first item, like the
\* other combo boxes.
LoadDefaultsLogLevelFirst ==
    [auto_load |-> TRUE, notifications |-> TRUE, default_action |-> 0, language |-> 0,
     theme |-> 0, font_size |-> 10, max_threads |-> 4, chunk_size |-> 512,
     memory_limit |-> 4096, tolerance |-> 50, debug |-> FALSE, log_level |-> 0,
     output_dir |-> <<>>, temp_dir |-> <<>>, models_dir |-> <<>>]

\* The default each settings.value(key, default, type=...) call of
\* _load_settings passes.
LoadDefaults ==
    [auto_load |-> TRUE, notifications |-> TRUE, default_action |-> 0, language |-> 0,
     theme |-> 0, font_size |-> 10, max_threads |-> 4, chunk_size |-> 512,
     memory_limit |-> 4096, tolerance |-> 50, debug |-> FALSE, log_level |-> 2,
     output_dir |-> <<>>, temp_dir |-> <<>>, models_dir |-> <<>>]

\* The values _reset_defaults sets after the user confirmed.
ResetValues ==
    [auto_load |-> TRUE, notifications |-> TRUE, default_action |-> 0, language |-> 0,
     theme |-> 0, font_size |-> 10, max_threads |-> 4, chunk_size |-> 512,
     memory_limit |-> 4096, tolerance |-> 50, debug |-> FALSE, log_level |-> 2,
     output_dir |-> <<>>, temp_dir |-> <<>>, models_dir |-> <<>>]

Clamp(lo, hi, v) == IF v < lo THEN lo ELSE IF v > hi THEN hi ELSE v

\* What a widget holds after its setter was called with v: setChecked,
\* setCurrentIndex (an index outside the items leaves no current item, -1),
\* setValue (clamped to the range), setText.
WidgetSet(k, v) ==
    IF k \in BoolKeys THEN v
    ELSE IF k \in ComboKeys THEN (IF v >= 0 /\ v < ComboCount(k) THEN v ELSE 0 - 1)
    ELSE IF k \in SpinKeys \cup FloatKeys THEN Clamp(SpinLow(k), SpinHigh(k), v)
    ELSE v

\* The string QSettings persists for a double counted in hundredths: the
\* shortest text that reads back as the same number ("0.5", "1", "0.37").
DoubleToStr(h) ==
    LET whole == IntToStr(h \div 100)
        frac == h % 100
    IN IF frac = 0 THEN whole
       ELSE IF frac % 10 = 0 THEN whole \o <<".", DigitChars[(frac \div 10) + 1]>>
       ELSE whole \o <<".", DigitChars[(frac \div 10) + 1], DigitChars[(frac % 10) + 1]>>

\* QVariant(QString).toDouble(), in hundredths; 0 when the text is no number.
StrToDouble(s) ==
    LET dots == {i \in 1..Len(s) : s[i] = "."}
    IN IF dots = {} THEN 100 * StrToInt(s)
       ELSE LET d == CHOOSE i \in dots : \A j \in dots : i <= j
                w == SubSeq(s, 1, d - 1)
                f == SubSeq(s, d + 1, Len(s))
            IN IF ~(Range(w) \cup Range(f) \subseteq Range(DigitChars)) \/ Len(f) > 2 THEN 0
               ELSE 100 * DigitsToInt(w)
                    + (IF Len(f) = 0 THEN 0
                       ELSE IF Len(f) = 1 THEN 10 * DigitVal(f[1])
                       ELSE DigitsToInt(f))

StrTrue == <<"t", "r", "u", "e">>
StrFalse == <<"f", "a", "l", "s", "e">>

\* The string form in which QSettings.setValue persists a field's value.
Persisted(k, v) ==
    IF k \in BoolKeys THEN (IF v THEN StrTrue ELSE StrFalse)
    ELSE IF k \in ComboKeys \cup SpinKeys THEN IntToStr(v)
    ELSE IF k \in FloatKeys THEN DoubleToStr(v)
    ELSE v

\* settings.value(key, default, type=...): the default when the key is not
\* set, else the persisted string converted to the type asked for
\* (QVariant: a string is false when empty, "0" or "false").
SettingsValue(st, k, default) ==
    IF ~st[k].set THEN default
    ELSE IF k \in BoolKeys THEN ~(st[k].s \in {<<>>, <<"0">>, StrFalse})
    ELSE IF k \in ComboKeys \cup SpinKeys THEN StrToInt(st[k].s)
    ELSE IF k \in FloatKeys THEN StrToDouble(st[k].s)
    ELSE st[k].s

EmptyStore == [k \in Keys |-> [set |-> FALSE, s |-> <<>>]]

\* _load_settings: every widget is set from the store.
LoadFields(st) == [k \in Keys |-> WidgetSet(k, SettingsValue(st, k, LoadDefaults[k]))]

\* SaveStore with the memory limit written from the chunk-size widget.
SaveStoreWrongWidget(st, f) ==
    [k \in Keys |->
        [set |-> TRUE,
         s |-> IF k = "memory_limit" THEN Persisted(k, f["chunk_size"])
               ELSE Persisted(k, f[k])]]

\* _save_settings: setValue of every field, then sync().
SaveStore(st, f) == [k \in Keys |-> [set |-> TRUE, s |-> Persisted(k, f[k])]]

\* _reset_defaults after Yes: the widgets are set, the store is not touched.
ResetFields(f) == [k \in Keys |-> WidgetSet(k, ResetValues[k])]
\* ResetStore persisting the defaults it restored.
ResetStoreWrites(st, f) == [k \in Keys |-> [set |-> TRUE, s |-> Persisted(k, ResetValues[k])]]

ResetStore(st, f) == st

\* ------------------------------------------------------------------ controller

NoWidget == [visible |-> FALSE, connected |-> FALSE, attachCount |-> 0]

NeverSaved == [ever |-> FALSE, f |-> ConstructorFields]

\* PluginTemplate.__init__ (through classFactory), with nothing loaded in the
\* host and nothing in the preference store.
Init ==
    /\ stage = "constructed"
    /\ unloadCalls = 0
    /\ actions = <<>>
    /\ menu = "None"
    /\ toolbar = "None"
    /\ dockRef = [p \in Panels |-> FALSE]
    /\ widget = [p \in Panels |-> NoWidget]
    /\ instances = [p \in Panels |-> 0]
    /\ checked = [p \in Panels |-> FALSE]
    /\ layers = {}
    /\ combo = <<>>
    /\ comboIndex = 0 - 1
    /\ subs = NoSubs
    /\ form = DefaultForm
    /\ fields = ConstructorFields
    /\ sstatus = ""
    /\ store = EmptyStore
    /\ last = NoOutcome
    /\ saved = NeverSaved
    /\ resetNoSave = FALSE
    /\ edits = 0

\* add_action: the new QAction is appended to self.actions.
AddAction(acts, text) == Append(acts, text)

\* initGui: the menu, the toolbar and the four actions, in this order. Both
\* toggle actions are checkable and start unchecked.
InitGui ==
    /\ stage = "constructed"
    /\ stage' = "gui"
    /\ menu' = "alive"
    /\ toolbar' = "alive"
    /\ actions' = AddAction(AddAction(AddAction(AddAction(actions,
                      "Sample Panel"), "Settings Panel"),
                      "Check for Updates..."), "About Plugin Template")
    /\ checked' = [p \in Panels |-> FALSE]
    /\ last' = Outcome("initGui")
    /\ UNCHANGED <<unloadCalls, dockRef, widget, instances, layers, sampleVars,
                   settingsVars, store, histVars>>

\* The statements of a toggle's try block, in order.
ConstructSteps == <<"import", "construct", "name", "connect", "attach", "show", "raise">>
FailPoints == {"none"} \cup Range(ConstructSteps)
StepIdx(s) == CHOOSE i \in 1..Len(ConstructSteps) : ConstructSteps[i] = s

\* Step `step` ran to its end when the try block raises at `fail`.
Done(step, fail) == fail = "none" \/ StepIdx(step) < StepIdx(fail)

\* PanelIsNone without the test: every toggle constructs.
PanelIsNoneAlways(p) == TRUE

\* `if self._sample_dock is None:` / `if self._settings_dock is None:`
PanelIsNone(p) == ~dockRef[p]

\* An except clause that unchecks both toggle actions.
ExceptCheckedAll(chk, p) == [q \in Panels |-> FALSE]

\* The except clause of a toggle: the error dialog, then setChecked(False).
\* It does not touch self._<panel>_dock.
ExceptChecked(chk, p) == [chk EXCEPT ![p] = FALSE]
ExceptRef(ref, p) == ref

\* toggle_sample_dock / toggle_settings_dock, run by the action's triggered
\* signal (the checkable action has flipped its checked state before).
\* fail names the statement of the try block that raises, if any.
ToggleDock(p, fail) ==
    /\ stage = "gui"
    /\ LET clicked == [checked EXCEPT ![p] = ~@]
       IN IF PanelIsNone(p)
          THEN LET built == Done("construct", fail)
                   conn == Done("connect", fail)
                   \* iface.addDockWidget shows the dock; show() then finds it shown
                   vis == Done("attach", fail)
                   w == [visible |-> vis, connected |-> conn,
                         attachCount |-> IF Done("attach", fail) THEN 1 ELSE 0]
                   \* visibilityChanged(True) -> _on_<panel>_visibility_changed
                   mirrored == IF vis /\ conn THEN [clicked EXCEPT ![p] = TRUE] ELSE clicked
                   ref == [dockRef EXCEPT ![p] = built]
               IN /\ dockRef' = IF fail = "none" THEN ref ELSE ExceptRef(ref, p)
                  /\ widget' = [widget EXCEPT ![p] = IF built THEN w ELSE @]
                  /\ instances' = [instances EXCEPT ![p] = IF built THEN @ + 1 ELSE @]
                  /\ checked' = IF fail = "none" THEN mirrored ELSE ExceptChecked(mirrored, p)
                  /\ last' = [Outcome("toggle") EXCEPT !.panel = p, !.built = built,
                                 !.failed = (fail # "none"),
                                 !.dialogs = IF fail = "none" THEN 0 ELSE 1]
          ELSE /\ fail = "none"
               /\ widget' = [widget EXCEPT ![p].visible = ~@]
               /\ checked' = IF widget[p].connected
                             THEN [clicked EXCEPT ![p] = ~widget[p].visible]
                             ELSE clicked
               /\ last' = [Outcome("toggle") EXCEPT !.panel = p]
               /\ UNCHANGED <<dockRef, instances>>
    /\ UNCHANGED <<ctlVars, layers, store, histVars>>

\* SampleDockWidget.__init__: _setup_ui fills the combo from the project and
\* connects _populate_layers to layersAdded and layersRemoved.
ToggleSample(fail) ==
    /\ ToggleDock("sample", fail)
    /\ IF PanelIsNone("sample") /\ Done("construct", fail)
       THEN /\ combo' = PopulateItems(layers)
            /\ comboIndex' = PopulateIndex(layers)
            /\ subs' = AllSubs
            /\ form' = DefaultForm
       ELSE UNCHANGED sampleVars
    /\ UNCHANGED settingsVars

\* SettingsDockWidget.__init__: _setup_ui, then _load_settings.
ToggleSettings(fail) ==
    /\ ToggleDock("settings", fail)
    /\ IF PanelIsNone("settings") /\ Done("construct", fail)
       THEN /\ fields' = LoadFields(store)
            /\ sstatus' = "Settings loaded"
       ELSE UNCHANGED settingsVars
    /\ UNCHANGED sampleVars

\* The user closes a visible dock (its close button, or its entry of the
\* host's Panels menu): the dock gets a close event, and once that is
\* accepted it is hidden and emits visibilityChanged(False). Only the
\* Sample dock overrides closeEvent.
HostClose(p) ==
    /\ stage = "gui"
    /\ dockRef[p]
    /\ widget[p].visible
    /\ LET r == IF p = "sample" THEN CloseDisconnect(subs)
                ELSE [subs |-> subs, caught |-> FALSE, raised |-> "none"]
           ok == r.raised = "none"
       IN /\ subs' = r.subs
          /\ widget' = [widget EXCEPT ![p].visible = ~ok]
          /\ checked' = IF ok /\ widget[p].connected
                        THEN [checked EXCEPT ![p] = FALSE] ELSE checked
          /\ last' = [Outcome("close") EXCEPT !.panel = p, !.caught = r.caught,
                         !.raised = r.raised, !.accepted = ok]
    /\ UNCHANGED <<ctlVars, dockRef, instances, layers, combo, comboIndex, form,
                   settingsVars, store, histVars>>

\* The user shows a hidden dock from the host's Panels menu (the entry that
\* addDockWidget registered): visibilityChanged(True).
HostShow(p) ==
    /\ stage = "gui"
    /\ dockRef[p]
    /\ widget[p].attachCount > 0
    /\ ~widget[p].visible
    /\ widget' = [widget EXCEPT ![p].visible = TRUE]
    /\ checked' = IF widget[p].connected THEN [checked EXCEPT ![p] = TRUE] ELSE checked
    /\ last' = [Outcome("show") EXCEPT !.panel = p]
    /\ UNCHANGED <<ctlVars, dockRef, instances, layers, sampleVars, settingsVars,
                   store, histVars>>

\* unload, the part for one dock: removeDockWidget hides it (and so emits
\* visibilityChanged(False)), deleteLater, and the reference is set to None.
UnloadChecked(chk) ==
    [p \in Panels |->
        IF dockRef[p] /\ widget[p].visible /\ widget[p].connected THEN FALSE ELSE chk[p]]
UnloadInstances(n) == [p \in Panels |-> IF dockRef[p] THEN n[p] - 1 ELSE n[p]]
UnloadRef(ref) == [p \in Panels |-> FALSE]

\* unload, the part after the docks: removePluginMenu for every action (the
\* list self.actions is left as it is), `del self.toolbar` when it is truthy,
\* self.menu.deleteLater() when it is truthy. `if self.toolbar:` raises
\* AttributeError once the attribute was deleted.
UnloadActions(acts) == acts

RECURSIVE Reverse(_)
Reverse(q) == IF q = <<>> THEN q ELSE Append(Reverse(Tail(q)), q[1])

\* The loop over reversed(self.actions).
UnloadRemovalReversed(acts) == Reverse(acts)

\* An unload after which the deleted dock's connections still deliver.
UnloadSubsKept(s) == s

\* deleteLater() of the Sample dock: Qt deletes the widget, and a
\* connection to a method of a deleted QObject no longer delivers.
UnloadSubs(s) == NoSubs

\* for action in self.actions: the removePluginMenu calls, in their order.
UnloadRemovalOrder(acts) == acts
UnloadRaises == toolbar = "unset"
UnloadToolbar(tb) == IF tb = "alive" THEN "unset" ELSE tb
UnloadMenu(m) == IF m = "None" THEN m ELSE "deleteLater"

Unload ==
    /\ stage \in {"gui", "unloaded"}
    /\ unloadCalls < MaxUnloads
    /\ unloadCalls' = unloadCalls + 1
    /\ stage' = "unloaded"
    /\ dockRef' = UnloadRef(dockRef)
    /\ widget' = [p \in Panels |-> IF dockRef[p] THEN NoWidget ELSE widget[p]]
    /\ instances' = UnloadInstances(instances)
    /\ checked' = UnloadChecked(checked)
    /\ actions' = UnloadActions(actions)
    /\ toolbar' = IF UnloadRaises THEN toolbar ELSE UnloadToolbar(toolbar)
    /\ menu' = IF UnloadRaises THEN menu ELSE UnloadMenu(menu)
    /\ last' = [Outcome("unload") EXCEPT
                   !.raised = IF UnloadRaises THEN "AttributeError" ELSE "none",
                   !.removed = UnloadRemovalOrder(actions),
                   !.hadSubs = dockRef["sample"] /\ subs # NoSubs]
    \* a deleted dock takes its widgets and its signal connections with it
    /\ IF dockRef["sample"]
       THEN /\ combo' = <<>>
            /\ comboIndex' = 0 - 1
            /\ subs' = UnloadSubs(subs)
            /\ form' = DefaultForm
       ELSE UNCHANGED sampleVars
    /\ IF dockRef["settings"]
       THEN /\ fields' = ConstructorFields
            /\ sstatus' = ""
       ELSE UNCHANGED settingsVars
    /\ UNCHANGED <<layers, store, histVars>>

\* The host reloads the plugin after unload: classFactory builds a new
\* PluginTemplate. The host's layers and the preference store live on.
ClassFactory ==
    /\ stage = "unloaded"
    /\ stage' = "constructed"
    /\ unloadCalls' = 0
    /\ actions' = <<>>
    /\ menu' = "None"
    /\ toolbar' = "None"
    /\ dockRef' = [p \in Panels |-> FALSE]
    /\ checked' = [p \in Panels |-> FALSE]
    /\ last' = Outcome("classFactory")
    /\ UNCHANGED <<widget, instances, layers, sampleVars, settingsVars, store, histVars>>

\* The host adds layer l to the project and emits layersAdded; a subscribed
\* Sample dock runs _populate_layers.
LayersAdded(l) ==
    /\ l \notin layers
    /\ layers' = layers \cup {l}
    /\ IF subs.added
       THEN /\ combo' = PopulateItems(layers')
            /\ comboIndex' = PopulateIndex(layers')
       ELSE UNCHANGED <<combo, comboIndex>>
    /\ last' = Outcome("layersAdded")
    /\ UNCHANGED <<ctlVars, dockVars, subs, form, settingsVars, store, histVars>>

\* The host removes layer l from the project and emits layersRemoved.
LayersRemoved(l) ==
    /\ l \in layers
    /\ layers' = layers \ {l}
    /\ IF subs.removed
       THEN /\ combo' = PopulateItems(layers')
            /\ comboIndex' = PopulateIndex(layers')
       ELSE UNCHANGED <<combo, comboIndex>>
    /\ last' = Outcome("layersRemoved")
    /\ UNCHANGED <<ctlVars, dockVars, subs, form, settingsVars, store, histVars>>

\* The user picks another item of the layer combo of the visible Sample dock.
SelectLayer(i) ==
    /\ dockRef["sample"]
    /\ widget["sample"].visible
    /\ i \in 0..(Len(combo) - 1)
    /\ i # comboIndex
    /\ comboIndex' = i
    /\ last' = Outcome("selectLayer")
    /\ UNCHANGED <<ctlVars, dockVars, layers, combo, subs, form, settingsVars,
                   store, histVars>>

Next ==
    \/ InitGui
    \/ \E fail \in FailPoints : ToggleSample(fail)
    \/ \E fail \in FailPoints : ToggleSettings(fail)
    \/ \E p \in Panels : HostClose(p)
    \/ \E p \in Panels : HostShow(p)
    \/ Unload
    \/ ClassFactory
    \/ \E l \in LayerIds : LayersAdded(l)
    \/ \E l \in LayerIds : LayersRemoved(l)
    \/ \E i \in 0..MaxLayers : SelectLayer(i)

Spec == Init /\ [][Next]_vars

\* ------------------------------------------------------------------ Sample dock's form

\* What the user types, sets and picks.
TextValues == {"", "abc"}
NumberValues == {SpinMin, 42, SpinDefault}
FilePaths == {"/data/dem.tif"}

SampleShown == dockRef["sample"] /\ widget["sample"].visible

\* The state after initGui() and a first toggle_sample_dock() that raised
\* nothing, with no layer loaded.
InitSample ==
    /\ stage = "gui"
    /\ unloadCalls = 0
    /\ actions = AddAction(AddAction(AddAction(AddAction(<<>>,
                     "Sample Panel"), "Settings Panel"),
                     "Check for Updates..."), "About Plugin Template")
    /\ menu = "alive"
    /\ toolbar = "alive"
    /\ dockRef = [p \in Panels |-> p = "sample"]
    /\ widget = [p \in Panels |->
                    IF p = "sample"
                    THEN [visible |-> TRUE, connected |-> TRUE, attachCount |-> 1]
                    ELSE NoWidget]
    /\ instances = [p \in Panels |-> IF p = "sample" THEN 1 ELSE 0]
    /\ checked = [p \in Panels |-> p = "sample"]
    /\ layers = {}
    /\ combo = PopulateItems({})
    /\ comboIndex = PopulateIndex({})
    /\ subs = AllSubs
    /\ form = DefaultForm
    /\ fields = ConstructorFields
    /\ sstatus = ""
    /\ store = EmptyStore
    /\ last = [Outcome("toggle") EXCEPT !.panel = "sample", !.built = TRUE]
    /\ saved = NeverSaved
    /\ resetNoSave = FALSE
    /\ edits = 0

FormUnchanged == UNCHANGED <<ctlVars, dockVars, layers, combo, comboIndex, subs,
                             settingsVars, store, histVars>>

\* The user types into text_input.
EditText(t) ==
    /\ SampleShown
    /\ t # form.text
    /\ form' = [form EXCEPT !.text = t]
    /\ last' = Outcome("editText")
    /\ FormUnchanged

\* The user sets number_spin (the widget keeps the value within its range).
SetNumber(n) ==
    /\ SampleShown
    /\ n # form.number
    /\ form' = [form EXCEPT !.number = Clamp(SpinMin, SpinMax, n)]
    /\ last' = Outcome("setNumber")
    /\ FormUnchanged

\* The user flips option_check.
SetOption ==
    /\ SampleShown
    /\ form' = [form EXCEPT !.option = ~@]
    /\ last' = Outcome("setOption")
    /\ FormUnchanged

\* _browse_file: QFileDialog.getOpenFileName returns "" when cancelled.
BrowseFileText(cur, picked) == IF picked # "" THEN picked ELSE cur

BrowseFile(picked) ==
    /\ SampleShown
    /\ form' = [form EXCEPT !.file = BrowseFileText(@, picked)]
    /\ last' = [Outcome("browseFile") EXCEPT !.reply = picked]
    /\ FormUnchanged

\* _run_action, to its end: the progress bar is shown and hidden again, the
\* status goes through "Processing..." to "Completed", the report is set and
\* one success message is pushed to the message bar.
RunForm(f, layerData) ==
    [f EXCEPT !.output = ReportLines(layerData, f.text, f.number, f.option, f.file),
              !.progress = FALSE,
              !.status = "Completed",
              !.statusColor = "green"]
RunNotes == 1

RunAction ==
    /\ SampleShown
    /\ form' = RunForm(form, CurrentData(combo, comboIndex))
    /\ last' = [Outcome("run") EXCEPT !.notes = RunNotes]
    /\ FormUnchanged

\* A clear that puts the whole form back as it was built.
ClearFormAll(f) == DefaultForm

\* _clear_output
ClearForm(f) == [f EXCEPT !.output = <<>>, !.status = "Ready", !.statusColor = "gray"]

ClearOutput ==
    /\ SampleShown
    /\ form' = ClearForm(form)
    /\ last' = [Outcome("clear") EXCEPT !.hadOutput = form.output # <<>>]
    /\ FormUnchanged

NextSample ==
    \/ \E l \in LayerIds : LayersAdded(l)
    \/ \E l \in LayerIds : LayersRemoved(l)
    \/ \E i \in 0..MaxLayers : SelectLayer(i)
    \/ \E t \in TextValues : EditText(t)
    \/ \E n \in NumberValues : SetNumber(n)
    \/ SetOption
    \/ \E f \in FilePaths \cup {""} : BrowseFile(f)
    \/ RunAction
    \/ ClearOutput

SpecSample == InitSample /\ [][NextSample]_vars

\* ------------------------------------------------------------------ Settings dock's form

SettingsShown == dockRef["settings"] /\ widget["settings"].visible

DirValues == {<<>>, <<"/", "o", "u", "t">>}

\* The values the user gives a field; each widget only takes values of its
\* range.
FieldValues(k) ==
    IF k \in BoolKeys THEN BOOLEAN
    ELSE IF k = "log_level" THEN {0, 2, 3}
    ELSE IF k \in ComboKeys THEN {0, ComboCount(k) - 1}
    ELSE IF k = "chunk_size" THEN {512, 1024, SpinHigh(k)}
    ELSE IF k = "memory_limit" THEN {SpinLow(k), 4096, 8192}
    ELSE IF k = "font_size" THEN {10, SpinHigh(k)}
    ELSE IF k = "max_threads" THEN {SpinLow(k), 4}
    ELSE IF k = "tolerance" THEN {50, 37, SpinHigh(k)}
    ELSE DirValues

SettingsUnchanged == UNCHANGED <<ctlVars, dockVars, layers, sampleVars>>

\* The user changes one field of the visible Settings dock.
EditField(k, v) ==
    /\ SettingsShown
    /\ edits < MaxEdits
    /\ v # fields[k]
    /\ fields' = [fields EXCEPT ![k] = WidgetSet(k, v)]
    /\ edits' = edits + 1
    /\ last' = Outcome("edit")
    /\ UNCHANGED <<sstatus, store, saved, resetNoSave>>
    /\ SettingsUnchanged

\* _save_settings
SaveSettings ==
    /\ SettingsShown
    /\ store' = SaveStore(store, fields)
    /\ sstatus' = "Settings saved"
    /\ saved' = [ever |-> TRUE, f |-> fields]
    /\ resetNoSave' = FALSE
    /\ last' = [Outcome("save") EXCEPT !.notes = 1]
    /\ UNCHANGED <<fields, edits>>
    /\ SettingsUnchanged

\* _load_settings, called on a live panel.
LoadSettings ==
    /\ dockRef["settings"]
    /\ fields' = LoadFields(store)
    /\ sstatus' = "Settings loaded"
    /\ last' = Outcome("load")
    /\ UNCHANGED <<store, histVars>>
    /\ SettingsUnchanged

\* A reset that does not look at the reply of the question box.
ResetConfirmedAlways(reply) == TRUE

\* if reply != QMessageBox.Yes: return
ResetConfirmed(reply) == reply = "Yes"

\* _reset_defaults: the question box, then the defaults only after Yes.
ResetDefaults(reply) ==
    /\ SettingsShown
    /\ IF ResetConfirmed(reply)
       THEN /\ fields' = ResetFields(fields)
            /\ store' = ResetStore(store, fields)
            /\ sstatus' = "Defaults restored (not saved)"
            /\ resetNoSave' = TRUE
       ELSE UNCHANGED <<fields, store, sstatus, resetNoSave>>
    /\ last' = [Outcome("reset") EXCEPT !.reply = reply]
    /\ UNCHANGED <<saved, edits>>
    /\ SettingsUnchanged

\* The toggle's outcomes that differ for the form and the store: nothing
\* raises, the constructor raises (no panel), the last statement raises (a
\* panel, and the except clause has run).
SettingsFailPoints == {"none", "construct", "raise"}

NextSettings ==
    \/ InitGui
    \/ \E fail \in SettingsFailPoints : ToggleSettings(fail)
    \/ Unload
    \/ ClassFactory
    \/ \E k \in Keys : \E v \in FieldValues(k) : EditField(k, v)
    \/ SaveSettings
    \/ LoadSettings
    \/ \E reply \in {"Yes", "No"} : ResetDefaults(reply)

SpecSettings == Init /\ [][NextSettings]_vars

\* ------------------------------------------------------------------ the pickers

\* A picker that writes whatever the dialog returned.
BrowseDirTextAlways(cur, picked) == picked

\* _browse_directory: QFileDialog.getExistingDirectory returns "" when
\* cancelled; the line edit is set only to a non-empty path.
BrowseDirText(cur, picked) == IF picked # <<>> THEN picked ELSE cur

DirPicks == {<<>>, <<"/", "o", "u", "t">>, <<"/", "d">>}

\* The browse button next to the line edit of key k.
BrowseDirectory(k, picked) ==
    /\ SettingsShown
    /\ fields' = [fields EXCEPT ![k] = BrowseDirText(@, picked)]
    /\ last' = [Outcome("browseDir") EXCEPT !.target = k, !.dir = picked]
    /\ UNCHANGED <<sstatus, store, histVars>>
    /\ SettingsUnchanged

\* The state after initGui() and a first toggle of each panel that raised
\* nothing, with no layer loaded and an empty store.
InitPickers ==
    /\ stage = "gui"
    /\ unloadCalls = 0
    /\ actions = AddAction(AddAction(AddAction(AddAction(<<>>,
                     "Sample Panel"), "Settings Panel"),
                     "Check for Updates..."), "About Plugin Template")
    /\ menu = "alive"
    /\ toolbar = "alive"
    /\ dockRef = [p \in Panels |-> TRUE]
    /\ widget = [p \in Panels |->
                    [visible |-> TRUE, connected |-> TRUE, attachCount |-> 1]]
    /\ instances = [p \in Panels |-> 1]
    /\ checked = [p \in Panels |-> TRUE]
    /\ layers = {}
    /\ combo = PopulateItems({})
    /\ comboIndex = PopulateIndex({})
    /\ subs = AllSubs
    /\ form = DefaultForm
    /\ fields = LoadFields(EmptyStore)
    /\ sstatus = "Settings loaded"
    /\ store = EmptyStore
    /\ last = [Outcome("toggle") EXCEPT !.panel = "settings", !.built = TRUE]
    /\ saved = NeverSaved
    /\ resetNoSave = FALSE
    /\ edits = 0

NextPickers ==
    \/ \E f \in FilePaths \cup {""} : BrowseFile(f)
    \/ \E k \in StrKeys : \E d \in DirPicks : BrowseDirectory(k, d)
    \/ SaveSettings
    \/ LoadSettings
    \/ ClearOutput

SpecPickers == InitPickers /\ [][NextPickers]_vars

\* ------------------------------------------------------------------ load from a partial store

\* Values other than the defaults, as an earlier session saved them.
PresetFields ==
    [auto_load |-> FALSE, notifications |-> FALSE, default_action |-> 2, language |-> 4,
     theme |-> 2, font_size |-> 24, max_threads |-> 1, chunk_size |-> 1024,
     memory_limit |-> 8192, tolerance |-> 37, debug |-> TRUE, log_level |-> 3,
     output_dir |-> <<"/", "o", "u", "t">>, temp_dir |-> <<"/", "t", "m", "p">>,
     models_dir |-> <<"/", "m">>]

\* A preference store that holds the keys of S only (written by an earlier
\* session that knew fewer settings, or edited in the host's settings editor).
PartialStore(S) ==
    [k \in Keys |->
        IF k \in S THEN [set |-> TRUE, s |-> Persisted(k, PresetFields[k])]
        ELSE [set |-> FALSE, s |-> <<>>]]

PartialStores == {PartialStore(S) : S \in {T \in SUBSET Keys : Cardinality(T) <= MaxPresent}}

\* The state after initGui(), before any toggle; the store is left open.
AfterInitGui ==
    /\ stage = "gui"
    /\ unloadCalls = 0
    /\ actions = AddAction(AddAction(AddAction(AddAction(<<>>,
                     "Sample Panel"), "Settings Panel"),
                     "Check for Updates..."), "About Plugin Template")
    /\ menu = "alive"
    /\ toolbar = "alive"
    /\ dockRef = [p \in Panels |-> FALSE]
    /\ widget = [p \in Panels |-> NoWidget]
    /\ instances = [p \in Panels |-> 0]
    /\ checked = [p \in Panels |-> FALSE]
    /\ layers = {}
    /\ combo = <<>>
    /\ comboIndex = 0 - 1
    /\ subs = NoSubs
    /\ form = DefaultForm
    /\ fields = ConstructorFields
    /\ sstatus = ""
    /\ last = Outcome("initGui")
    /\ saved = NeverSaved
    /\ resetNoSave = FALSE
    /\ edits = 0

InitLoad == AfterInitGui /\ store \in PartialStores

NextLoad ==
    \/ \E fail \in SettingsFailPoints : ToggleSettings(fail)
    \/ LoadSettings
    \/ \E reply \in {"Yes", "No"} : ResetDefaults(reply)

SpecLoad == InitLoad /\ [][NextLoad]_vars

\* ------------------------------------------------------------------ the about dialog

VersionKey == <<"v", "e", "r", "s", "i", "o", "n", "=">>

StartsWith(s, pre) == Len(s) >= Len(pre) /\ SubSeq(s, 1, Len(pre)) = pre

\* str.strip() for the blank.
RECURSIVE Strip(_)
Strip(s) ==
    IF s = <<>> THEN s
    ELSE IF s[1] = " " THEN Strip(Tail(s))
    ELSE IF s[Len(s)] = " " THEN Strip(SubSeq(s, 1, Len(s) - 1))
    ELSE s

\* The pattern with (.*) for the value.
VersionMatchEmpty(line) == StartsWith(line, VersionKey)

\* ^version=(.+)$ on one line: the key at the start of the line and at
\* least one character after it.
VersionMatch(line) == StartsWith(line, VersionKey) /\ Len(line) > Len(VersionKey)

\* group(1) of the match.
VersionGroup(line) == SubSeq(line, Len(VersionKey) + 1, Len(line))

\* re.search(..., re.MULTILINE) over the lines of the file, and the strip:
\* the first line that matches, "Unknown" when none does.
RECURSIVE SearchVersion(_)
SearchVersion(content) ==
    IF content = <<>> THEN "Unknown"
    ELSE IF VersionMatch(content[1]) THEN Join(Strip(VersionGroup(content[1])))
    ELSE SearchVersion(Tail(content))

\* Lines of a metadata.txt: name=x, version=2, "version= 1.0 ", an empty
\* version=, and an indented " version=9".
MetaLines ==
    { <<"n", "a", "m", "e", "=", "x">>,
      VersionKey \o <<"2">>,
      VersionKey \o <<" ", "1", ".", "0", " ">>,
      VersionKey,
      <<" ">> \o VersionKey \o <<"9">> }

RECURSIVE SeqsUpTo(_, _)
SeqsUpTo(S, n) ==
    IF n = 0 THEN {<<>>}
    ELSE LET shorter == SeqsUpTo(S, n - 1)
         IN shorter \cup {Append(q, x) : q \in shorter, x \in S}

MetaContents == SeqsUpTo(MetaLines, MaxMetaLines)

\* show_about: the version from metadata.txt, a warning box when reading
\* raised, then the about box.
ShowAbout(content, readFails) ==
    /\ stage = "gui"
    /\ last' = [Outcome("about") EXCEPT
                   !.meta = content,
                   !.readFails = readFails,
                   !.version = IF readFails THEN "Unknown" ELSE SearchVersion(content),
                   !.warnings = IF readFails THEN 1 ELSE 0,
                   !.abouts = 1,
                   !.dialogs = IF readFails THEN 2 ELSE 1]
    /\ UNCHANGED <<ctlVars, dockVars, layers, sampleVars, settingsVars, store, histVars>>

InitAbout == AfterInitGui /\ store = EmptyStore

\* The toggle's outcomes that differ for what is on screen: nothing raises,
\* the constructor raises, the last statement raises.
AboutFailPoints == {"none", "construct", "raise"}

NextAbout ==
    \/ \E fail \in AboutFailPoints : ToggleSample(fail)
    \/ \E fail \in AboutFailPoints : ToggleSettings(fail)
    \/ \E p \in Panels : HostClose(p)
    \/ \E p \in Panels : HostShow(p)
    \/ \E content \in MetaContents : ShowAbout(content, FALSE)
    \/ ShowAbout(<<>>, TRUE)

SpecAbout == InitAbout /\ [][NextAbout]_vars

\* ------------------------------------------------------------------ claims

Exists(p) == dockRef[p] /\ instances[p] > 0
Toggled(p) == last.op = "toggle" /\ last.panel = p

\* C1: for both panels, after every operation, the toggle control is
\* checked if and only if the panel exists and is visible.
C1_CheckedMirrorsVisibility ==
    \A p \in Panels : checked[p] <=> (dockRef[p] /\ widget[p].visible)

\* C2: after unload() was called twice in succession following initGui(),
\* the second call did not raise and the controller holds zero registered
\* actions and zero docks.
C2_DoubleUnloadClean ==
    (last.op = "unload" /\ unloadCalls = 2) =>
        /\ last.raised = "none"
        /\ Len(actions) = 0
        /\ \A p \in Panels : ~dockRef[p] /\ instances[p] = 0

\* C3: while the Sample dock exists, its layer list is the sentinel first and
\* then exactly one entry per layer loaded in the host, and after a layer
\* add/remove notification the selection is the sentinel.
C3_LayerListTracksHost ==
    Exists("sample") =>
        /\ Len(combo) = 1 + Cardinality(layers)
        /\ combo[1] = NoneData
        /\ {combo[i] : i \in 2..Len(combo)} = layers
        /\ (last.op \in {"layersAdded", "layersRemoved"} => comboIndex = 0)

\* The defaults the specification enumerates for the 15 settings fields.
EnumeratedDefaults ==
    [auto_load |-> TRUE, notifications |-> TRUE, default_action |-> 0, language |-> 0,
     theme |-> 0, font_size |-> 10, max_threads |-> 4, chunk_size |-> 512,
     memory_limit |-> 4096, tolerance |-> 50, debug |-> FALSE, log_level |-> 2,
     output_dir |-> <<>>, temp_dir |-> <<>>, models_dir |-> <<>>]

\* A load has just run: _load_settings called on the live panel, or run by
\* the constructor of a new Settings dock.
JustLoaded == last.op = "load" \/ (Toggled("settings") /\ last.built)
JustRestarted == Toggled("settings") /\ last.built

\* C4: a load that follows a save, in the same panel or in a newly
\* constructed one, leaves each of the 15 fields at the value it had when
\* it was saved.
C4_SaveLoadRoundTrip ==
    (JustLoaded /\ saved.ever) => \A k \in Keys : fields[k] = saved.f[k]

\* C4's case: chunk-size 1024 and memory-limit 8192 were saved, the panel
\* was released and a new one constructed.
C4_Witness ==
    /\ JustRestarted
    /\ saved.ever
    /\ saved.f.chunk_size = 1024
    /\ saved.f.memory_limit = 8192
    /\ fields.chunk_size = 1024

\* C5: a reset never writes to the preference store, and a load after a
\* confirmed reset with no save in between leaves every field at the value
\* last saved, or at its default when nothing was ever saved.
C5_ResetIsInMemoryOnly ==
    /\ [](JustLoaded /\ resetNoSave =>
            fields = IF saved.ever THEN saved.f ELSE EnumeratedDefaults)
    /\ [][last'.op = "reset" => store' = store]_vars

\* C5's case: values other than the defaults were saved, a reset was
\* confirmed, and a load brought the saved values back.
C5_Witness ==
    /\ JustLoaded
    /\ resetNoSave
    /\ saved.ever
    /\ saved.f # EnumeratedDefaults
    /\ fields = saved.f

\* C6: a toggle whose construction raised showed one error dialog, left the
\* toggle control unchecked and left the panel uninstantiated.
C6_FailedConstructionLeavesNone ==
    (last.op = "toggle" /\ last.failed) =>
        /\ last.dialogs = 1
        /\ ~checked[last.panel]
        /\ ~dockRef[last.panel]

\* C7: there is never more than one live instance of a panel; an instance
\* is constructed only by a toggle taken while the panel is uninstantiated;
\* a toggle taken while it is instantiated flips its visibility and neither
\* constructs nor attaches.
C7_SingleInstance ==
    /\ [](\A p \in Panels : instances[p] <= 1)
    /\ [][\A p \in Panels :
            /\ instances'[p] > instances[p] =>
                  (~dockRef[p] /\ last'.op = "toggle" /\ last'.panel = p)
            /\ (last'.op = "toggle" /\ last'.panel = p /\ dockRef[p]) =>
                  /\ instances'[p] = instances[p]
                  /\ dockRef'[p]
                  /\ ~last'.built
                  /\ widget'[p].attachCount = widget[p].attachCount
                  /\ widget'[p].visible = ~widget[p].visible]_vars

\* C7's case: a toggle was taken on an instantiated panel and hid it.
C7_Witness ==
    \E p \in Panels :
        /\ Toggled(p)
        /\ ~last.built
        /\ ~last.failed
        /\ Exists(p)
        /\ widget[p].attachCount = 1
        /\ ~widget[p].visible

\* C8: after unload the controller holds no action, toolbar, menu or dock.
C8_UnloadReleasesAll ==
    (last.op = "unload" /\ unloadCalls = 1) =>
        /\ \A p \in Panels : ~dockRef[p] /\ instances[p] = 0
        /\ actions = <<>>
        /\ toolbar \in {"None", "unset"}
        /\ menu = "None"

\* C9: after run() the report holds the five lines for the field values,
\* the status reads "Completed", the progress indicator is hidden and one
\* success notification was emitted.
C9_RunReport ==
    last.op = "run" =>
        LET d == CurrentData(combo, comboIndex)
            has(line) == \E i \in 1..Len(form.output) : form.output[i] = line
        IN /\ last.raised = "none"
           /\ has("Text Input: " \o (IF form.text = "" THEN "(empty)" ELSE form.text))
           /\ has("Number Value: " \o ToString(form.number))
           /\ has("Option Enabled: " \o (IF form.option THEN "True" ELSE "False"))
           /\ has("Selected Layer ID: " \o
                    (IF comboIndex = 0 THEN "None" ELSE "layer_" \o ToString(d)))
           /\ has("File Path: " \o (IF form.file = "" THEN "(none)" ELSE form.file))
           /\ form.status = "Completed"
           /\ ~form.progress
           /\ last.notes = 1

\* C9's case: text "abc", number 42, option checked, a layer selected, and
\* run() wrote the three literal lines of the scenario.
C9_Witness ==
    /\ last.op = "run"
    /\ form.text = "abc" /\ form.number = 42 /\ form.option
    /\ comboIndex > 0
    /\ form.output[4] = "Text Input: abc"
    /\ form.output[5] = "Number Value: 42"
    /\ form.output[6] = "Option Enabled: True"

\* C10: a close event of the Sample dock never raises, is accepted, and
\* leaves the dock subscribed to neither layersAdded nor layersRemoved,
\* whatever the subscriptions were before.
C10_CloseUnsubscribes ==
    (last.op = "close" /\ last.panel = "sample") =>
        /\ last.raised = "none"
        /\ last.accepted
        /\ ~subs.added
        /\ ~subs.removed
        /\ ~widget["sample"].visible

\* C10's case: the dock was closed while already unsubscribed (a second
\* close), so the disconnect raised and was swallowed.
C10_Witness ==
    /\ last.op = "close"
    /\ last.panel = "sample"
    /\ last.caught
    /\ last.accepted

\* C11: a load never raises and leaves every field whose key is absent from
\* the preference store at its enumerated default; the constructor and a
\* confirmed reset set the same values.
C11_AbsentKeysGetDefaults ==
    /\ JustLoaded =>
          /\ last.raised = "none"
          /\ \A k \in Keys : ~store[k].set => fields[k] = EnumeratedDefaults[k]
    /\ (last.op = "reset" /\ last.reply = "Yes") => fields = EnumeratedDefaults
    /\ [k \in Keys |-> WidgetSet(k, ConstructorFields[k])] = EnumeratedDefaults

\* C11's case: a load over a store that holds the chunk size and not the
\* log level: the one is read, the other is at its default.
C11_Witness ==
    /\ JustLoaded
    /\ store["chunk_size"].set
    /\ ~store["log_level"].set
    /\ fields.chunk_size = 1024
    /\ fields.log_level = 2

\* C12: a declined reset changes no field, neither the status nor the
\* store; a confirmed one leaves all 15 fields at their defaults and the
\* status at "Defaults restored (not saved)".
C12_ResetOnlyOnConfirmation ==
    [][last'.op = "reset" =>
          IF last'.reply = "Yes"
          THEN /\ fields' = EnumeratedDefaults
               /\ sstatus' = "Defaults restored (not saved)"
          ELSE /\ fields' = fields
               /\ sstatus' = sstatus
               /\ store' = store]_vars

\* C12's case: a reset was declined over a form that is not at its defaults.
C12_Witness ==
    /\ last.op = "reset"
    /\ last.reply = "No"
    /\ fields # EnumeratedDefaults
    /\ sstatus # "Defaults restored (not saved)"

\* The lines of the metadata that start with the key, and those that carry
\* a value after it.
KeyLines(m) == {i \in 1..Len(m) : StartsWith(m[i], VersionKey)}
ValueLines(m) == {i \in KeyLines(m) : Len(m[i]) > Len(VersionKey)}
First(I) == CHOOSE i \in I : \A j \in I : i <= j

\* C13 as stated: the about dialog shows the trimmed value of the first
\* version= line of the metadata file.
C13_FirstVersionLine ==
    (last.op = "about" /\ ~last.readFails /\ KeyLines(last.meta) # {}) =>
        last.version = Join(Strip(VersionGroup(last.meta[First(KeyLines(last.meta))])))

\* C13 amended: show_about never raises; it shows the trimmed value of the
\* first version= line that has a non-empty value, "Unknown" when there is
\* none or when reading raised; one warning exactly when reading raised;
\* the about dialog once; the panels, the form and the store as they were.
C13_FirstNonEmptyVersionLine ==
    /\ [](last.op = "about" =>
            /\ last.raised = "none"
            /\ last.abouts = 1
            /\ last.warnings = (IF last.readFails THEN 1 ELSE 0)
            /\ last.version =
                  (IF last.readFails \/ ValueLines(last.meta) = {} THEN "Unknown"
                   ELSE Join(Strip(VersionGroup(last.meta[First(ValueLines(last.meta))])))))
    /\ [][last'.op = "about" =>
            UNCHANGED <<dockVars, sampleVars, settingsVars, store, layers>>]_vars

\* C13's case: the about dialog over a file whose first version= line is
\* empty and whose second carries 2, with a panel on screen.
C13_Witness ==
    /\ last.op = "about"
    /\ last.meta = <<VersionKey, VersionKey \o <<"2">>>>
    /\ last.version = "2"
    /\ \E p \in Panels : dockRef[p] /\ widget[p].visible

\* C14 as stated: unload releases the action records in the reverse of
\* their creation order: About, Check for Updates, Settings Panel, Sample
\* Panel.
C14_ReleasedInReverseOrder ==
    last.op = "unload" =>
        last.removed = <<"About Plugin Template", "Check for Updates...",
                         "Settings Panel", "Sample Panel">>

\* C14 amended: unload takes the actions out of the plugin menu in the
\* order in which initGui created them: Sample Panel, Settings Panel,
\* Check for Updates, About.
C14_RemovedInCreationOrder ==
    last.op = "unload" =>
        last.removed = <<"Sample Panel", "Settings Panel",
                         "Check for Updates...", "About Plugin Template">>

\* C14's case: a first unload has taken four actions out of the menu.
C14_Witness ==
    /\ last.op = "unload"
    /\ unloadCalls = 1
    /\ Len(last.removed) = 4

C16_ClearKeepsInputs ==
    /\ [](last.op = "clear" => form.output = <<>> /\ form.status = "Ready")
    /\ [][last'.op = "clear" =>
            /\ combo' = combo
            /\ comboIndex' = comboIndex
            /\ form'.text = form.text
            /\ form'.number = form.number
            /\ form'.option = form.option
            /\ form'.file = form.file]_vars

\* C16's case: a clear of a form that held a report, with inputs that are
\* not the initial ones.
C16_Witness ==
    /\ last.op = "clear"
    /\ last.hadOutput
    /\ form.text = "abc"
    /\ form.file # ""
    /\ form.number # SpinDefault
    /\ comboIndex > 0

\* C17: a cancelled file picker leaves the Sample form as it was and a
\* cancelled directory picker leaves the Settings fields as they were; an
\* accepted one changes its own field only, and neither touches the store.
C17_CancelledPickerIsNoOp ==
    [][/\ last'.op = "browseFile" =>
            /\ form' = (IF last'.reply = "" THEN form
                        ELSE [form EXCEPT !.file = last'.reply])
            /\ fields' = fields
            /\ store' = store
       /\ last'.op = "browseDir" =>
            /\ fields' = (IF last'.dir = <<>> THEN fields
                          ELSE [fields EXCEPT ![last'.target] = last'.dir])
            /\ sstatus' = sstatus
            /\ form' = form
            /\ store' = store]_vars

\* C17's case: the picker of the temporary directory was cancelled over a
\* field that holds a path, next to another directory field that holds one
\* and a store that was saved.
C17_Witness ==
    /\ last.op = "browseDir"
    /\ last.target = "temp_dir"
    /\ last.dir = <<>>
    /\ fields.temp_dir # <<>>
    /\ fields.output_dir # <<>>
    /\ store["temp_dir"].set

====
